---- MODULE Spec2Model ----
(***************************************************************************)
(* Combat, death, progression and turn orchestration of the roguelike:     *)
(* object.rs (Object::take_damage, attack, power, defense, ...),           *)
(* fighter.rs (DeathCallback, player_death, monster_death) and             *)
(* game_state.rs (new_game, game_loop, level_up, movement primitives).     *)
(*                                                                         *)
(* Option<T> is modelled as a sequence of length 0 (None) or 1 (Some(v)).  *)
(* A log entry is the pair <<text, colour>> that MessageLog::add appends.  *)
(***************************************************************************)
EXTENDS Integers, Sequences, FiniteSets, TLC

VARIABLES
    objects,                   \* Vec<Object>, a function on 0..len-1
    inventory,                 \* game_state.inventory
    log,                       \* game_state.log
    pc,                        \* position inside game_loop / the call driver
    tick,                      \* number of completed loop iterations
    key,                       \* the key read in the input phase
    player_action,             \* result of handle_keys in this iteration
    previous_player_position,  \* local of game_loop
    fov_recompute,             \* local of game_loop
    level_up_xp,               \* local of level_up
    ai_id,                     \* loop variable of the AI loop
    phases,                    \* phases executed so far in this iteration
    ai_trace,                  \* ids handed to ai_take_turn in this iteration
    menu_count,                \* calls of menu() in this iteration
    level_at_tick_start,       \* player level when this iteration began
    call,                      \* the last primitive invoked and what it returned
    calls,                     \* number of primitives invoked by the call driver
    spawn,                     \* the objects as they were spawned
    saved                      \* the save_game calls: arguments and result

vars == <<objects, inventory, log, pc, tick, key, player_action,
          previous_player_position, fov_recompute, level_up_xp, ai_id,
          phases, ai_trace, menu_count, level_at_tick_start, call, calls, spawn,
          saved>>

loop_locals == <<key, player_action, previous_player_position, fov_recompute,
                 level_up_xp, ai_id, phases, ai_trace, menu_count,
                 level_at_tick_start, tick>>

-----------------------------------------------------------------------------
(* Bounds                                                                  *)

MaxTicks == 2          \* loop iterations explored
MaxCalls == 3          \* primitive calls explored by the call driver
MaxMenuQueries == 2    \* calls of menu() explored in one level-up

-----------------------------------------------------------------------------
(* Program constants                                                       *)

PLAYER == 0
LEVEL_UP_BASE == 200
LEVEL_UP_FACTOR == 150

-----------------------------------------------------------------------------
(* Option                                                                  *)

None == <<>>
Some(v) == <<v>>
is_some(o) == o # <<>>
is_none(o) == o = <<>>
unwrap(o) == o[1]

\* Vec<Object>: ids and len()
Ids(objs) == DOMAIN objs
len(objs) == Cardinality(DOMAIN objs)

-----------------------------------------------------------------------------
(* MessageLog::add                                                         *)

add(lg, text, color) == Append(lg, <<text, color>>)

Texts(lg) == [i \in 1..Len(lg) |-> lg[i][1]]

-----------------------------------------------------------------------------
(* fighter.rs                                                              *)

player_death_clears_fighter(player, messages) ==
    [obj |-> [player EXCEPT !.chr = "%", !.color = "DARK_RED",
                            !.fighter = None],
     log |-> add(messages, "You died!", "RED")]

player_death(player, messages) ==
    [obj |-> [player EXCEPT !.chr = "%", !.color = "DARK_RED"],
     log |-> add(messages, "You died!", "RED")]

monster_death_renames_first(monster, messages) ==
    [obj |-> [monster EXCEPT !.chr = "%", !.color = "DARK_RED",
                             !.blocks = FALSE, !.fighter = None,
                             !.ai = None,
                             !.name = "remains of " \o monster.name],
     log |-> add(messages,
                 "remains of " \o monster.name \o " is dead! You gain "
                     \o ToString(unwrap(monster.fighter).xp) \o " XP",
                 "ORANGE")]

monster_death_keeps_fighter(monster, messages) ==
    [obj |-> [monster EXCEPT !.chr = "%", !.color = "DARK_RED",
                             !.blocks = FALSE, !.ai = None,
                             !.name = "remains of " \o monster.name],
     log |-> add(messages,
                 monster.name \o " is dead! You gain "
                     \o ToString(unwrap(monster.fighter).xp) \o " XP",
                 "ORANGE")]

monster_death_keeps_ai(monster, messages) ==
    [obj |-> [monster EXCEPT !.chr = "%", !.color = "DARK_RED",
                             !.blocks = FALSE, !.fighter = None,
                             !.name = "remains of " \o monster.name],
     log |-> add(messages,
                 monster.name \o " is dead! You gain "
                     \o ToString(unwrap(monster.fighter).xp) \o " XP",
                 "ORANGE")]

monster_death(monster, messages) ==
    [obj |-> [monster EXCEPT !.chr = "%", !.color = "DARK_RED",
                             !.blocks = FALSE, !.fighter = None,
                             !.ai = None,
                             !.name = "remains of " \o monster.name],
     log |-> add(messages,
                 monster.name \o " is dead! You gain "
                     \o ToString(unwrap(monster.fighter).xp) \o " XP",
                 "ORANGE")]

callback(on_death, object, messages) ==
    IF on_death = "Player"
    THEN player_death(object, messages)
    ELSE monster_death(object, messages)

-----------------------------------------------------------------------------
(* object.rs                                                               *)

RECURSIVE SumSeq(_)
SumSeq(s) == IF s = <<>> THEN 0 ELSE Head(s) + SumSeq(Tail(s))

get_all_equipped(self, inv) ==
    IF self.name = "player"
    THEN LET equipped(item) == is_some(item.equipment)
                                   /\ unwrap(item.equipment).equipped
             sel == SelectSeq(inv, equipped)
         IN [i \in 1..Len(sel) |-> unwrap(sel[i].equipment)]
    ELSE <<>>

power_base_only(self, inv) ==
    IF is_some(self.fighter) THEN unwrap(self.fighter).base_power ELSE 0

power(self, inv) ==
    LET base_power == IF is_some(self.fighter)
                      THEN unwrap(self.fighter).base_power ELSE 0
        eq == get_all_equipped(self, inv)
        bonus == SumSeq([i \in 1..Len(eq) |-> eq[i].power_bonus])
    IN base_power + bonus

defense_missing_is_one(self, inv) ==
    LET base_defense == IF is_some(self.fighter)
                        THEN unwrap(self.fighter).base_defense ELSE 1
        eq == get_all_equipped(self, inv)
        bonus == SumSeq([i \in 1..Len(eq) |-> eq[i].defense_bonus])
    IN base_defense + bonus

defense(self, inv) ==
    LET base_defense == IF is_some(self.fighter)
                        THEN unwrap(self.fighter).base_defense ELSE 0
        eq == get_all_equipped(self, inv)
        bonus == SumSeq([i \in 1..Len(eq) |-> eq[i].defense_bonus])
    IN base_defense + bonus

max_hp(self, inv) ==
    LET base_max_hp == IF is_some(self.fighter)
                       THEN unwrap(self.fighter).base_max_hp ELSE 0
        eq == get_all_equipped(self, inv)
        bonus == SumSeq([i \in 1..Len(eq) |-> eq[i].max_hp_bonus])
    IN base_max_hp + bonus

heal_without_limit(self, inv, amount) ==
    IF is_some(self.fighter)
    THEN [self EXCEPT !.fighter =
             Some([unwrap(self.fighter) EXCEPT !.hp = @ + amount])]
    ELSE self

\* heal by the given amount, without going over the maximum
heal(self, inv, amount) ==
    IF is_some(self.fighter)
    THEN [self EXCEPT !.fighter =
             Some([unwrap(self.fighter) EXCEPT
                      !.hp = IF @ + amount > max_hp(self, inv)
                             THEN max_hp(self, inv) ELSE @ + amount])]
    ELSE self

\* Result: the object afterwards, the log afterwards, the Option<i32>
\* returned, and whether the death callback ran.
take_damage(self, damage, lg) ==
    LET o1 == IF is_some(self.fighter) /\ damage > 0
              THEN [self EXCEPT !.fighter =
                       Some([unwrap(self.fighter) EXCEPT !.hp = @ - damage])]
              ELSE self
    IN IF is_some(o1.fighter) /\ unwrap(o1.fighter).hp <= 0
       THEN LET fighter == unwrap(o1.fighter)
                r == callback(fighter.on_death,
                              [o1 EXCEPT !.alive = FALSE], lg)
            IN [obj |-> r.obj, log |-> r.log,
                ret |-> Some(fighter.xp), fired |-> TRUE]
       ELSE [obj |-> o1, log |-> lg, ret |-> None, fired |-> FALSE]

\* Result: attacker and target afterwards, the log afterwards, the damage
\* computed, whether take_damage was called and what it returned, and
\* whether the unwrap() of the attacker's fighter panicked.

\* if let Some(xp) = <r> { self.fighter.as_mut().unwrap().xp += xp; }
attack_hit(self, damage, r) ==
    [self |-> IF is_some(r.ret) /\ is_some(self.fighter)
              THEN [self EXCEPT !.fighter =
                       Some([unwrap(self.fighter) EXCEPT
                                !.xp = @ + unwrap(r.ret)])]
              ELSE self,
     target |-> r.obj, log |-> r.log, damage |-> damage,
     evaluated |-> TRUE, ret |-> r.ret, fired |-> r.fired,
     panic |-> is_some(r.ret) /\ is_none(self.fighter)]

attack_with_zero_hits(self, target, lg, damage) ==
    IF damage >= 0
    THEN attack_hit(self, damage,
             take_damage(target, damage,
                 add(lg, self.name \o " attacks " \o target.name
                             \o " for " \o ToString(damage)
                             \o " hit points.", "WHITE")))
    ELSE [self |-> self, target |-> target,
          log |-> add(lg, self.name \o " attacks " \o target.name
                              \o " but it has no effect!", "WHITE"),
          damage |-> damage, evaluated |-> FALSE, ret |-> None,
          fired |-> FALSE, panic |-> FALSE]

attack_with(self, target, lg, damage) ==
    IF damage > 0
    THEN attack_hit(self, damage,
             take_damage(target, damage,
                 add(lg, self.name \o " attacks " \o target.name
                             \o " for " \o ToString(damage)
                             \o " hit points.", "WHITE")))
    ELSE [self |-> self, target |-> target,
          log |-> add(lg, self.name \o " attacks " \o target.name
                              \o " but it has no effect!", "WHITE"),
          damage |-> damage, evaluated |-> FALSE, ret |-> None,
          fired |-> FALSE, panic |-> FALSE]

attack(self, target, inv, lg) ==
    attack_with(self, target, lg, power(self, inv) - defense(target, inv))

-----------------------------------------------------------------------------
(* world and util: collaborators of game_state.rs                          *)

\* The floor cells of the map; every other cell is a wall.
MapWidth == 3
MapHeight == 2
Floor == (0..(MapWidth - 1)) \X (0..(MapHeight - 1))

pos(o) == <<o.x, o.y>>

is_blocked(objs, x, y) ==
    \/ <<x, y>> \notin Floor
    \/ \E i \in Ids(objs) : objs[i].blocks /\ pos(objs[i]) = <<x, y>>

\* mut_two hands out two mutable views only for two distinct indices.
mut_two_ok(first_index, second_index) == first_index # second_index

-----------------------------------------------------------------------------
(* game_state.rs: movement primitives                                      *)

move_by_unchecked(objs, id, dx, dy) ==
    [objs EXCEPT ![id].x = objs[id].x + dx, ![id].y = objs[id].y + dy]

move_by(objs, id, dx, dy) ==
    LET x == objs[id].x
        y == objs[id].y
    IN IF ~is_blocked(objs, x + dx, y + dy)
       THEN [objs EXCEPT ![id].x = x + dx, ![id].y = y + dy]
       ELSE objs

\* objects.iter().position(..): the first index that satisfies the test.
target_at(objs, x, y) ==
    LET hits == {i \in Ids(objs) :
                    is_some(objs[i].fighter) /\ pos(objs[i]) = <<x, y>>}
    IN IF hits = {} THEN None
       ELSE Some(CHOOSE i \in hits : \A j \in hits : i <= j)

NoAttack ==
    [a |-> -1, t |-> -1, damage |-> 0, evaluated |-> FALSE, ret |-> None,
     fired |-> FALSE]

\* let (player, target) = mut_two(objects, PLAYER, target_id);
\* player.attack(target, game_state)
attack_target(objs, t, r) ==
    [objects |-> [objs EXCEPT ![PLAYER] = r.self, ![t] = r.target],
     log |-> r.log, panic |-> r.panic, attacked |-> TRUE,
     info |-> [a |-> PLAYER, t |-> t, damage |-> r.damage,
               evaluated |-> r.evaluated, ret |-> r.ret,
               fired |-> r.fired]]

move_or_attack(objs, inv, lg, dx, dy, target_id) ==
    IF is_some(target_id)
    THEN IF ~mut_two_ok(PLAYER, unwrap(target_id))
         THEN [objects |-> objs, log |-> lg, panic |-> TRUE,
               attacked |-> FALSE,
               info |-> [NoAttack EXCEPT !.t = unwrap(target_id)]]
         ELSE attack_target(objs, unwrap(target_id),
                  attack(objs[PLAYER], objs[unwrap(target_id)], inv, lg))
    ELSE [objects |-> move_by(objs, PLAYER, dx, dy), log |-> lg,
          panic |-> FALSE, attacked |-> FALSE, info |-> NoAttack]

player_move_or_attack(objs, inv, lg, dx, dy) ==
    move_or_attack(objs, inv, lg, dx, dy,
        target_at(objs, objs[PLAYER].x + dx, objs[PLAYER].y + dy))

Sign(n) == IF n < 0 THEN -1 ELSE IF n > 0 THEN 1 ELSE 0

\* (d as f32 / distance).round() as i32 for distance = sqrt(dx^2 + dy^2) > 0:
\* |d| / distance >= 1/2 exactly when 4 d^2 >= dx^2 + dy^2 (equality needs
\* 3 d^2 = e^2, which no non-zero integers satisfy), and f32::round rounds
\* halves away from zero.
round_div(d, dx, dy) ==
    IF 4 * d * d >= dx * dx + dy * dy THEN Sign(d) ELSE 0

\* With distance = 0 both quotients are 0.0 / 0.0 = NaN; the cast of NaN to
\* i32 saturates to 0 on current compilers and was undefined before that
\* (i32::MIN on x86).
I32_MAX == 2147483647
I32_MIN == -I32_MAX - 1
NaNCasts == {0, I32_MIN}

\* The set of outcomes of move_towards: the objects afterwards.
move_towards(objs, id, target_x, target_y) ==
    LET dx == target_x - objs[id].x
        dy == target_y - objs[id].y
    IN IF dx = 0 /\ dy = 0
       THEN {move_by(objs, id, c, c) : c \in NaNCasts}
       ELSE {move_by(objs, id, round_div(dx, dx, dy), round_div(dy, dx, dy))}

-----------------------------------------------------------------------------
(* game_state.rs: level_up                                                 *)

threshold(level) == LEVEL_UP_BASE + level * LEVEL_UP_FACTOR

level_up_triggered_any_xp(player) == is_some(player.fighter)

\* The test and the first half of level_up, up to the first call of menu().
level_up_triggered(player) ==
    (IF is_some(player.fighter) THEN unwrap(player.fighter).xp ELSE 0)
        >= threshold(player.level)

level_up_begin(player, lg) ==
    [obj |-> [player EXCEPT !.level = @ + 1],
     log |-> add(lg, "Your battle skills grow stringer! You reached level "
                         \o ToString(player.level + 1) \o "!", "YELLOW")]

level_up_apply_no_heal(fighter, xp_cost, choice) ==
    LET f1 == [fighter EXCEPT !.xp = @ - xp_cost]
    IN CASE choice = 0 -> [f1 EXCEPT !.base_max_hp = @ + 20]
         [] choice = 1 -> [f1 EXCEPT !.base_power = @ + 1]
         [] choice = 2 -> [f1 EXCEPT !.base_defense = @ + 1]

\* The second half of level_up, once menu() has returned Some(choice).
level_up_apply(fighter, xp_cost, choice) ==
    LET f1 == [fighter EXCEPT !.xp = @ - xp_cost]
    IN CASE choice = 0 -> [f1 EXCEPT !.base_max_hp = @ + 20, !.hp = @ + 20]
         [] choice = 1 -> [f1 EXCEPT !.base_power = @ + 1]
         [] choice = 2 -> [f1 EXCEPT !.base_defense = @ + 1]

-----------------------------------------------------------------------------
(* Initial states: new_game's player, and the monsters make_world spawns   *)

PlayerStarts == {[hp |-> 100, xp |-> 0], [hp |-> 2, xp |-> 900]}
OrcHps == {1, 10}

NoEquipment == [equipment |-> None]
Sword == [equipment |-> Some([equipped |-> TRUE, power_bonus |-> 1,
                              defense_bonus |-> 0, max_hp_bonus |-> 0])]
Shield == [equipment |-> Some([equipped |-> FALSE, power_bonus |-> 0,
                               defense_bonus |-> 1, max_hp_bonus |-> 0])]
Amulet == [equipment |-> Some([equipped |-> TRUE, power_bonus |-> 0,
                               defense_bonus |-> 0, max_hp_bonus |-> 10])]
Inventories == {<<>>, <<Sword, NoEquipment, Shield>>}
HealInventories == {<<>>, <<Amulet, NoEquipment, Shield>>}

new_player(start) ==
    [x |-> 1, y |-> 0, name |-> "player", blocks |-> TRUE, alive |-> TRUE,
     chr |-> "@", color |-> "WHITE",
     fighter |-> Some([hp |-> start.hp, base_max_hp |-> 100,
                       base_defense |-> 1, base_power |-> 2,
                       on_death |-> "Player", xp |-> start.xp]),
     ai |-> None, level |-> 1]

new_monster(x, y, name, chr, hp, def, pow, xp) ==
    [x |-> x, y |-> y, name |-> name, blocks |-> TRUE, alive |-> TRUE,
     chr |-> chr, color |-> "DESATURATED_GREEN",
     fighter |-> Some([hp |-> hp, base_max_hp |-> hp, base_defense |-> def,
                       base_power |-> pow, on_death |-> "Monster",
                       xp |-> xp]),
     ai |-> Some("Basic"), level |-> 1]

NoCall ==
    [n |-> 0, op |-> "none", a |-> -1, t |-> -1, damage |-> 0,
     evaluated |-> FALSE, ret |-> None, fired |-> FALSE, args |-> <<>>]

InitDataWith(inventories) ==
    /\ \E start \in PlayerStarts, orc_hp \in OrcHps :
          objects = [id \in 0..2 |->
                        CASE id = 0 -> new_player(start)
                          [] id = 1 -> new_monster(2, 0, "orc", "o",
                                                   orc_hp, 0, 3, 35)
                          [] id = 2 -> new_monster(0, 1, "troll", "T",
                                                   16, 2, 4, 100)]
    /\ inventory \in inventories
    /\ log = <<<<"Welcome microbe! You're innit now. Beware of bacteria and viruses",
                 "RED">>>>
    /\ spawn = objects
    /\ saved = <<>>
    /\ tick = 0
    /\ key = "none"
    /\ player_action = "DidntTakeTurn"
    /\ previous_player_position = <<-1, -1>>
    /\ fov_recompute = FALSE
    /\ level_up_xp = 0
    /\ ai_id = 0
    /\ phases = <<>>
    /\ ai_trace = <<>>
    /\ menu_count = 0
    /\ level_at_tick_start = 1
    /\ call = NoCall
    /\ calls = 0

InitData == InitDataWith(Inventories)

Init == InitData /\ pc = "input"

-----------------------------------------------------------------------------
(* game_state.rs: game_loop                                                *)

next_phase_action_first(p) ==
    CASE p = "input" -> "render"
      [] p = "render" -> "action"
      [] p = "action" -> "level_up"
      [] p = "level_up" -> "ai"
      [] p = "ai" -> "input"

\* The order of the phases inside one iteration of the loop.
next_phase(p) ==
    CASE p = "input" -> "render"
      [] p = "render" -> "level_up"
      [] p = "level_up" -> "action"
      [] p = "action" -> "ai"
      [] p = "ai" -> "input"

Keys == {"up", "down", "left", "right", "none", "escape"}

Delta(k) ==
    CASE k = "up" -> <<0, -1>>
      [] k = "down" -> <<0, 1>>
      [] k = "left" -> <<-1, 0>>
      [] k = "right" -> <<1, 0>>

\* while !window_closed() { con.clear(); key = check_for_event(); ...
Input ==
    /\ pc = "input"
    /\ tick < MaxTicks
    /\ \E closed \in BOOLEAN :
          IF closed
          THEN /\ pc' = "done"
               /\ UNCHANGED <<key, phases, ai_trace, menu_count,
                              level_at_tick_start>>
          ELSE /\ key' \in Keys
               /\ phases' = <<"input">>
               /\ ai_trace' = <<>>
               /\ menu_count' = 0
               /\ level_at_tick_start' = objects[PLAYER].level
               /\ pc' = next_phase("input")
    /\ UNCHANGED <<objects, inventory, log, tick, player_action,
                   previous_player_position, fov_recompute, level_up_xp,
                   ai_id, call, calls, spawn, saved>>

\* fov_recompute = previous_player_position != player.pos(); render_all(..)
Render ==
    /\ pc = "render"
    /\ fov_recompute' = (previous_player_position # pos(objects[PLAYER]))
    /\ phases' = Append(phases, "render")
    /\ pc' = next_phase("render")
    /\ UNCHANGED <<objects, inventory, log, tick, key, player_action,
                   previous_player_position, level_up_xp, ai_id, ai_trace,
                   menu_count, level_at_tick_start, call, calls, spawn,
                   saved>>

\* level_up(..) up to the first call of menu(), or all of it when the
\* player's xp is below the threshold.
LevelUpCheck ==
    /\ pc = "level_up"
    /\ level_up_xp' = threshold(objects[PLAYER].level)
    /\ phases' = Append(phases, "level_up")
    /\ IF level_up_triggered(objects[PLAYER])
       THEN LET r == level_up_begin(objects[PLAYER], log)
            IN /\ objects' = [objects EXCEPT ![PLAYER] = r.obj]
               /\ log' = r.log
               /\ pc' = "menu"
       ELSE /\ pc' = next_phase("level_up")
            /\ UNCHANGED <<objects, log>>
    /\ UNCHANGED <<inventory, tick, key, player_action,
                   previous_player_position, fov_recompute, ai_id, ai_trace,
                   menu_count, level_at_tick_start, call, calls, spawn,
                   saved>>

level_up_return_loops(player) ==
    IF level_up_triggered(player) THEN "level_up" ELSE next_phase("level_up")

\* Where level_up leaves the loop once the choice has been applied.
level_up_return(player) == next_phase("level_up")

\* One call of menu() inside  while choice.is_none() { choice = menu(..) }
\* and, when it returns Some(choice), the rest of level_up.
LevelUpMenu ==
    /\ pc = "menu"
    /\ menu_count' = menu_count + 1
    /\ \E choice \in {None, Some(0), Some(1), Some(2)} :
          IF is_none(choice)
          THEN /\ menu_count + 1 < MaxMenuQueries
               /\ UNCHANGED <<objects, pc>>
          ELSE LET fighter == unwrap(objects[PLAYER].fighter)
                   f2 == level_up_apply(fighter, level_up_xp, unwrap(choice))
               IN /\ objects' = [objects EXCEPT ![PLAYER].fighter = Some(f2)]
                  /\ pc' = level_up_return(objects'[PLAYER])
    /\ UNCHANGED <<inventory, log, tick, key, player_action,
                   previous_player_position, fov_recompute, level_up_xp,
                   ai_id, phases, ai_trace, level_at_tick_start, call,
                   calls, spawn, saved>>

\* handle_keys (game_io): the key decides the action; a direction key of a
\* living player is passed on to player_move_or_attack.
took_turn(r) ==
    [action |-> "TookTurn", objects |-> r.objects, log |-> r.log,
     panic |-> r.panic, attacked |-> r.attacked, info |-> r.info]

handle_keys(k, objs, inv, lg) ==
    IF k = "escape"
    THEN [action |-> "Exit", objects |-> objs, log |-> lg, panic |-> FALSE,
          attacked |-> FALSE, info |-> NoAttack]
    ELSE IF k = "none" \/ ~objs[PLAYER].alive
    THEN [action |-> "DidntTakeTurn", objects |-> objs, log |-> lg,
          panic |-> FALSE, attacked |-> FALSE, info |-> NoAttack]
    ELSE took_turn(player_move_or_attack(objs, inv, lg,
                                         Delta(k)[1], Delta(k)[2]))

\* The test that guards the AI loop of game_loop.
monsters_take_turn(objs, action) ==
    objs[PLAYER].alive /\ action # "DidntTakeTurn"

record_attack(info) ==
    [n |-> call.n + 1, op |-> "attack", a |-> info.a, t |-> info.t,
     damage |-> info.damage, evaluated |-> info.evaluated,
     ret |-> info.ret, fired |-> info.fired, args |-> <<>>]

\* save_game returns Result<(), Box<dyn Error>>.
SaveResults == {"Ok", "Err"}

after_save_ignores_error(result) == "done"

\* save_game(objects, game_state).unwrap(); break;
after_save(result) == IF result = "Ok" THEN "done" ELSE "panic"

\* previous_player_position = pos; player_action = handle_keys(..);
\* if Exit { save_game(..).unwrap(); break }  and the test of the AI loop.
Action ==
    /\ pc = "action"
    /\ previous_player_position' = pos(objects[PLAYER])
    /\ phases' = Append(phases, "action")
    /\ LET r == handle_keys(key, objects, inventory, log)
       IN /\ player_action' = r.action
          /\ objects' = r.objects
          /\ log' = r.log
          /\ IF r.action = "Exit"
             THEN /\ \E result \in SaveResults :
                        /\ saved' = Append(saved,
                               [objects |-> r.objects,
                                inventory |-> inventory, log |-> r.log,
                                result |-> result])
                        /\ pc' = after_save(result)
                  /\ call' = [NoCall EXCEPT !.n = call.n + 1,
                                            !.op = "save_game"]
                  /\ UNCHANGED <<ai_id, tick>>
             ELSE /\ call' = IF r.attacked THEN record_attack(r.info)
                                           ELSE call
                  /\ UNCHANGED saved
                  /\ IF r.panic
                     THEN pc' = "panic" /\ UNCHANGED <<ai_id, tick>>
                     ELSE IF monsters_take_turn(r.objects, r.action)
                     THEN /\ pc' = next_phase("action")
                          /\ ai_id' = 0
                          /\ UNCHANGED tick
                     ELSE /\ pc' = "input"
                          /\ tick' = tick + 1
                          /\ UNCHANGED ai_id
    /\ UNCHANGED <<inventory, key, fov_recompute, level_up_xp, ai_trace,
                   menu_count, level_at_tick_start, calls, spawn>>

takes_turn_if_fighter(o) == is_some(o.fighter)

\* The test of the loop body: if objects[id].ai.is_some()
takes_turn(o) == is_some(o.ai)

\* One iteration of  for id in 0..objects.len()  with ai_take_turn
\* (entity::ai) choosing between the primitives it may invoke on the player.
AiTurn ==
    /\ pc = "ai"
    /\ ai_id < len(objects)
    /\ phases' = IF ai_id = 0 THEN Append(phases, "ai") ELSE phases
    /\ IF takes_turn(objects[ai_id])
       THEN /\ ai_trace' = Append(ai_trace, ai_id)
            /\ \/ UNCHANGED <<objects, log, call>>
               \/ /\ objects' \in move_towards(objects, ai_id,
                                               objects[PLAYER].x,
                                               objects[PLAYER].y)
                  /\ UNCHANGED <<log, call>>
               \/ /\ mut_two_ok(ai_id, PLAYER)
                  /\ LET r == attack(objects[ai_id], objects[PLAYER],
                                     inventory, log)
                     IN /\ objects' = [objects EXCEPT ![ai_id] = r.self,
                                                      ![PLAYER] = r.target]
                        /\ log' = r.log
                        /\ call' = record_attack(
                               [a |-> ai_id, t |-> PLAYER,
                                damage |-> r.damage,
                                evaluated |-> r.evaluated, ret |-> r.ret,
                                fired |-> r.fired])
       ELSE UNCHANGED <<objects, log, call, ai_trace>>
    /\ IF ai_id + 1 = len(objects)
       THEN pc' = next_phase("ai") /\ tick' = tick + 1
       ELSE UNCHANGED <<pc, tick>>
    /\ ai_id' = ai_id + 1
    /\ UNCHANGED <<inventory, key, player_action, previous_player_position,
                   fov_recompute, level_up_xp, menu_count,
                   level_at_tick_start, calls, spawn, saved>>

Next == Input \/ Render \/ LevelUpCheck \/ LevelUpMenu \/ Action \/ AiTurn

Spec == Init /\ [][Next]_vars

-----------------------------------------------------------------------------
(* Call driver: any sequence of calls of the combat primitives, each on    *)
(* two distinct slots handed out by mut_two                                *)

Damages == {0, 2}

CallInit == InitData /\ pc = "call"

CallAttack ==
    /\ pc = "call"
    /\ calls < MaxCalls
    /\ \E a \in Ids(objects), t \in Ids(objects) :
          /\ mut_two_ok(a, t)
          /\ LET r == attack(objects[a], objects[t], inventory, log)
             IN /\ objects' = [objects EXCEPT ![a] = r.self, ![t] = r.target]
                /\ log' = r.log
                /\ call' = record_attack([a |-> a, t |-> t,
                                          damage |-> r.damage,
                                          evaluated |-> r.evaluated,
                                          ret |-> r.ret, fired |-> r.fired])
                /\ pc' = IF r.panic THEN "panic" ELSE "call"
    /\ calls' = calls + 1
    /\ UNCHANGED <<inventory, spawn, saved, loop_locals>>

CallTakeDamage ==
    /\ pc = "call"
    /\ calls < MaxCalls
    /\ \E id \in Ids(objects), damage \in Damages :
          LET r == take_damage(objects[id], damage, log)
          IN /\ objects' = [objects EXCEPT ![id] = r.obj]
             /\ log' = r.log
             /\ call' = [n |-> call.n + 1, op |-> "take_damage", a |-> -1,
                         t |-> id, damage |-> damage, evaluated |-> TRUE,
                         ret |-> r.ret, fired |-> r.fired, args |-> <<>>]
    /\ calls' = calls + 1
    /\ UNCHANGED <<inventory, pc, spawn, saved, loop_locals>>

CallNext == CallAttack \/ CallTakeDamage

CallSpec == CallInit /\ [][CallNext]_vars

-----------------------------------------------------------------------------
(* Call driver of heal: any sequence of heal and take_damage calls         *)

\* Amounts handed to heal; next_level hands it half of the player's max_hp.
HealAmounts == {-3, 5, 60}
heal_hp(self, inv) == max_hp(self, inv) \div 2

HealInit == InitDataWith(HealInventories) /\ pc = "call"

\* call.damage holds the amount handed to heal.
CallHeal ==
    /\ pc = "call"
    /\ calls < MaxCalls
    /\ \E id \in Ids(objects) :
          \E amount \in HealAmounts \cup {heal_hp(objects[id], inventory)} :
             /\ objects' = [objects EXCEPT
                                ![id] = heal(objects[id], inventory, amount)]
             /\ call' = [NoCall EXCEPT !.n = call.n + 1, !.op = "heal",
                                       !.t = id, !.damage = amount]
    /\ calls' = calls + 1
    /\ UNCHANGED <<inventory, log, pc, spawn, saved, loop_locals>>

HealNext == CallHeal \/ CallTakeDamage

HealSpec == HealInit /\ [][HealNext]_vars

-----------------------------------------------------------------------------
(* Call driver of the movement primitives                                  *)

\* The arguments handed to player_move_or_attack and to move_towards.
Steps == {-1, 0, 1}
Targets == Floor

MoveInit == InitData /\ pc = "call"

\* call.a is PLAYER when attack was invoked, call.t the target_id found.
CallPlayerMoveOrAttack ==
    /\ pc = "call"
    /\ calls < MaxCalls
    /\ \E dx \in Steps, dy \in Steps :
          LET r == player_move_or_attack(objects, inventory, log, dx, dy)
          IN /\ objects' = r.objects
             /\ log' = r.log
             /\ call' = [n |-> call.n + 1, op |-> "player_move_or_attack",
                         a |-> r.info.a, t |-> r.info.t,
                         damage |-> r.info.damage,
                         evaluated |-> r.info.evaluated,
                         ret |-> r.info.ret, fired |-> r.info.fired,
                         args |-> <<dx, dy>>]
             /\ pc' = IF r.panic THEN "panic" ELSE "call"
    /\ calls' = calls + 1
    /\ UNCHANGED <<inventory, spawn, saved, loop_locals>>

CallMoveTowards ==
    /\ pc = "call"
    /\ calls < MaxCalls
    /\ \E id \in Ids(objects), target \in Targets :
          /\ objects' \in move_towards(objects, id, target[1], target[2])
          /\ call' = [NoCall EXCEPT !.n = call.n + 1, !.op = "move_towards",
                                    !.args = <<id, target[1], target[2]>>]
    /\ calls' = calls + 1
    /\ UNCHANGED <<inventory, log, pc, spawn, saved, loop_locals>>

MoveNext == CallPlayerMoveOrAttack \/ CallMoveTowards

MoveSpec == MoveInit /\ [][MoveNext]_vars

-----------------------------------------------------------------------------
(* Vocabulary of the properties                                            *)

\* This step invoked a primitive (attack, take_damage, save_game).
Invoked == call'.n # call.n

SpawnedAs(i, variant) ==
    is_some(spawn[i].fighter) /\ unwrap(spawn[i].fighter).on_death = variant

HasFighter(o) == o.fighter # <<>>
Fighter(o) == o.fighter[1]

\* Sum of one bonus over the equipped items of the owner of the inventory.
RECURSIVE BonusSum(_, _)
BonusSum(inv, field) ==
    IF inv = <<>> THEN 0
    ELSE (IF Head(inv).equipment # <<>> /\ Head(inv).equipment[1].equipped
          THEN Head(inv).equipment[1][field] ELSE 0)
         + BonusSum(Tail(inv), field)

Bonus(o, field) == IF o.name = "player" THEN BonusSum(inventory, field) ELSE 0

PowerOf(o) ==
    (IF HasFighter(o) THEN Fighter(o).base_power ELSE 0) + Bonus(o, "power_bonus")
DefenseOf(o) ==
    (IF HasFighter(o) THEN Fighter(o).base_defense ELSE 0)
        + Bonus(o, "defense_bonus")
DamageOf(a, t) == PowerOf(objects[a]) - DefenseOf(objects[t])
MaxHpOf(o) ==
    (IF HasFighter(o) THEN Fighter(o).base_max_hp ELSE 0)
        + Bonus(o, "max_hp_bonus")
Min(a, b) == IF a < b THEN a ELSE b

-----------------------------------------------------------------------------
(* Death transition                                                        *)

\* C1: once an entity has alive = FALSE, a further take_damage on it
\* (directly or through attack) is a no-op: the death callback does not run
\* again, no death message is appended to the log, no field of the entity
\* changes and no xp is returned; for the Player and the Monster variant.
C1_DeathFiresAtMostOnce ==
    [][(Invoked /\ call'.op \in {"attack", "take_damage"}
            /\ ~objects[call'.t].alive)
        => /\ ~call'.fired
           /\ call'.ret = None
           /\ objects'[call'.t] = objects[call'.t]
           /\ \A i \in (Len(log) + 1)..Len(log') :
                 /\ log'[i][1] # "You died!"
                 /\ log'[i][2] # "ORANGE"]_vars

\* C2: an attack that brings a monster's hp to <= 0 adds exactly the
\* monster's xp (as it was before the transition) to the attacker's xp, and
\* no later attack on that dead monster changes the attacker's xp.
C2_XpYieldedOncePerMonsterDeath ==
    [][(Invoked /\ call'.op = "attack" /\ SpawnedAs(call'.t, "Monster")
            /\ HasFighter(objects[call'.a]))
        => LET a == call'.a
               t == call'.t
               xp_before == Fighter(objects[a]).xp
               xp_after == Fighter(objects'[a]).xp
           IN /\ HasFighter(objects'[a])
              /\ (objects[t].alive /\ HasFighter(objects[t])
                      /\ DamageOf(a, t) > 0
                      /\ Fighter(objects[t]).hp - DamageOf(a, t) <= 0)
                    => xp_after = xp_before + Fighter(objects[t]).xp
              /\ ~objects[t].alive => xp_after = xp_before]_vars

\* C2 witness: a monster was killed by the player, has been attacked again
\* afterwards, and the player holds its xp exactly once.
C2_Witness ==
    /\ pc = "call"
    /\ call.op = "attack" /\ call.a = PLAYER /\ call.t = 1
    /\ call.damage > 0 /\ ~call.fired
    /\ ~objects[1].alive
    /\ Fighter(objects[PLAYER]).xp
           = Fighter(spawn[PLAYER]).xp + Fighter(spawn[1]).xp

\* C3: take_damage returns Some(xp) only when the death transition has just
\* fired on an entity of the Monster variant, and None when the dying entity
\* is of the Player variant or nothing fired; an attacker that kills the
\* player keeps its xp.
C3_XpOnlyFromFreshMonsterDeath ==
    [][(Invoked /\ call'.op \in {"attack", "take_damage"})
        => /\ is_some(call'.ret)
                => /\ call'.fired
                   /\ objects[call'.t].alive
                   /\ SpawnedAs(call'.t, "Monster")
           /\ (call'.op = "attack" /\ SpawnedAs(call'.t, "Player")
                   /\ HasFighter(objects[call'.a]))
                => Fighter(objects'[call'.a]).xp
                       = Fighter(objects[call'.a]).xp]_vars

\* C4: a dead entity spawned with the Monster variant has neither Fighter
\* nor Ai; the dead player still has its Fighter.
C4_DeadMonsterCleared ==
    /\ \A i \in DOMAIN objects :
          (SpawnedAs(i, "Monster") /\ ~objects[i].alive)
              => objects[i].fighter = None /\ objects[i].ai = None
    /\ ~objects[PLAYER].alive => HasFighter(objects[PLAYER])

\* C4 witness: a monster and the player are both dead.
C4_Witness ==
    /\ ~objects[PLAYER].alive
    /\ \E i \in DOMAIN objects \ {PLAYER} : ~objects[i].alive
    /\ tick >= 1

-----------------------------------------------------------------------------
(* Turn orchestration                                                      *)

PhaseOrder == <<"input", "render", "level_up", "action", "ai">>

IsPrefix(p, q) == Len(p) <= Len(q) /\ \A i \in 1..Len(p) : p[i] = q[i]

\* C5: in a tick whose action is not Exit, the AI loop runs exactly when the
\* player is alive after the player action and the action is not
\* DidntTakeTurn; the loop visits the ids in ascending order and hands to
\* ai_take_turn, once, exactly those that carry an Ai when their index is
\* reached, so an entity whose Ai a death transition cleared earlier in the
\* tick is passed over.
C5_AiLoop ==
    [][/\ (pc = "action" /\ pc' # "action" /\ player_action' # "Exit")
            => /\ (pc' = "ai") <=> (objects'[PLAYER].alive
                                      /\ player_action' # "DidntTakeTurn")
               /\ pc' = "ai" => ai_id' = 0 /\ ai_trace' = <<>>
       /\ (pc = "ai" /\ ai_id' # ai_id)
            => /\ ai_id' = ai_id + 1
               /\ ai_trace' = IF objects[ai_id].ai # <<>>
                              THEN Append(ai_trace, ai_id) ELSE ai_trace
               /\ (pc' # "ai") <=> (ai_id = Cardinality(DOMAIN objects) - 1)
       /\ pc' = "ai"
            => \A k \in 1..Len(ai_trace') :
                  /\ ai_trace'[k] < ai_id'
                  /\ k > 1 => ai_trace'[k - 1] < ai_trace'[k]
                  /\ objects'[ai_trace'[k]].ai # <<>>]_vars

\* C5 witness: the tick has ended, the player killed the orc (id 1) in it,
\* and of the two monsters only the troll (id 2) was handed to ai_take_turn.
C5_Witness ==
    /\ pc = "input" /\ tick >= 1
    /\ phases = PhaseOrder
    /\ ~objects[1].alive
    /\ Texts(log)[Len(log)] = "orc is dead! You gain 35 XP"
    /\ ai_trace = <<2>>

\* C6: the phases of a tick run in the order input, render, level-up check,
\* player action, AI actions; the level-up check is over before the player
\* action is resolved, and when the first AI entity is evaluated the player
\* action and the death transition it caused are applied in full.
C6_PhaseOrder ==
    /\ IsPrefix(phases, PhaseOrder)
    /\ pc = "render" => phases = SubSeq(PhaseOrder, 1, 1)
    /\ pc = "level_up" => phases = SubSeq(PhaseOrder, 1, 2)
    /\ pc \in {"menu", "action"} => phases = SubSeq(PhaseOrder, 1, 3)
    /\ pc = "ai" => /\ Len(phases) >= 4
                    /\ (Len(phases) = 4) <=> (ai_id = 0)
    /\ (pc = "ai" /\ ai_id = 0)
         => /\ previous_player_position # <<-1, -1>>
            /\ player_action = "TookTurn"
            /\ \A i \in DOMAIN objects :
                  HasFighter(objects[i])
                      => objects[i].alive /\ Fighter(objects[i]).hp > 0
            /\ (call.op = "attack" /\ call.n > 0 /\ call.fired)
                  => /\ ~objects[call.t].alive
                     /\ objects[call.t].fighter = None
                     /\ objects[call.t].ai = None
                     /\ ~objects[call.t].blocks

\* C6 witness: the AI loop is about to evaluate its first entity in a tick
\* in which the player levelled up and then killed the orc.
C6_Witness ==
    /\ pc = "ai" /\ ai_id = 0
    /\ menu_count > 0
    /\ call.op = "attack" /\ call.a = PLAYER /\ call.fired
    /\ objects[1].name = "remains of orc"

\* C7: the player's level rises by at most 1 per tick: level_up tests the
\* threshold once, and when the xp left after a level-up still reaches the
\* threshold of the new level the level stays until the next tick's test.
C7_OneLevelPerTick ==
    [][/\ objects'[PLAYER].level <= level_at_tick_start' + 1
       /\ objects'[PLAYER].level >= level_at_tick_start'
       /\ objects'[PLAYER].level # objects[PLAYER].level
            => /\ pc = "level_up"
               /\ objects'[PLAYER].level = objects[PLAYER].level + 1
               /\ objects[PLAYER].level = level_at_tick_start
       /\ (pc = "menu" /\ pc' # "menu") => pc' = "action"
       /\ (pc = "input" /\ pc' = "render")
            => level_at_tick_start' = objects[PLAYER].level]_vars

\* C7 witness: second tick; the first tick's level-up left the xp (550) at
\* or above the threshold of level 2 (500), the level stayed 2 for the rest
\* of that tick, and this tick's test has raised it to 3.
C7_Witness ==
    /\ tick = 1 /\ pc = "menu"
    /\ level_at_tick_start = 2
    /\ objects[PLAYER].level = 3
    /\ Fighter(objects[PLAYER]).xp = 550

-----------------------------------------------------------------------------
(* Combat resolver                                                         *)

\* C9: an attack between two fighters with damage = power(attacker) -
\* defense(target) > 0 (base stat plus equipped bonuses) lowers the target's
\* hp by exactly damage, appends "{attacker} attacks {target} for {damage}
\* hit points." to the log, and then evaluates the death transition on the
\* target, which fires exactly when the hp after the subtraction is <= 0.
C9_DamagingAttack ==
    [][(Invoked /\ call'.op = "attack"
            /\ HasFighter(objects[call'.a]) /\ HasFighter(objects[call'.t])
            /\ DamageOf(call'.a, call'.t) > 0)
        => LET a == call'.a
               t == call'.t
               damage == DamageOf(a, t)
               hp_after == Fighter(objects[t]).hp - damage
           IN /\ call'.damage = damage
              /\ Len(log') > Len(log)
              /\ log'[Len(log) + 1]
                   = <<objects[a].name \o " attacks " \o objects[t].name
                           \o " for " \o ToString(damage) \o " hit points.",
                       "WHITE">>
              /\ call'.evaluated
              /\ call'.fired <=> (hp_after <= 0)
              /\ HasFighter(objects'[t])
                   => Fighter(objects'[t]) =
                          [Fighter(objects[t]) EXCEPT !.hp = hp_after]
              /\ IF hp_after <= 0
                 THEN /\ ~objects'[t].alive
                      /\ Len(log') = Len(log) + 2
                      /\ HasFighter(objects'[t]) <=> SpawnedAs(t, "Player")
                 ELSE /\ Len(log') = Len(log) + 1
                      /\ objects'[t] = [objects[t] EXCEPT !.fighter =
                             <<[Fighter(objects[t]) EXCEPT !.hp = hp_after]>>]
      ]_vars

\* C9 witness: the player, with the sword's power bonus, has hit the orc for
\* 2 + 1 - 0 = 3 of its 10 hit points, and the orc lives on with 7.
C9_Witness ==
    /\ pc = "call"
    /\ call.op = "attack" /\ call.a = PLAYER /\ call.t = 1
    /\ call.damage = 3 /\ call.evaluated /\ ~call.fired
    /\ objects[1].alive /\ Fighter(objects[1]).hp = 7
    /\ Texts(log)[Len(log)] = "player attacks orc for 3 hit points."

\* C10: an attack with damage <= 0 only appends "{attacker} attacks {target}
\* but it has no effect!" to the log: the target (hp, alive, fighter, ai,
\* name, blocks) and the attacker's xp stay and no death transition is
\* evaluated.
C10_HarmlessAttack ==
    [][(Invoked /\ call'.op = "attack" /\ DamageOf(call'.a, call'.t) <= 0)
        => /\ log' = Append(log, <<objects[call'.a].name \o " attacks "
                                       \o objects[call'.t].name
                                       \o " but it has no effect!", "WHITE">>)
           /\ objects' = objects
           /\ ~call'.evaluated /\ ~call'.fired /\ call'.ret = None
           /\ pc' = pc]_vars

\* C10 witness: the player without a sword (power 2) has attacked the troll
\* (defense 2); the troll is as it was spawned.
C10_Witness ==
    /\ pc = "call"
    /\ call.op = "attack" /\ call.a = PLAYER /\ call.t = 2
    /\ call.damage = 0 /\ ~call.evaluated
    /\ objects[2] = spawn[2]
    /\ Texts(log)[Len(log)] = "player attacks troll but it has no effect!"

-----------------------------------------------------------------------------
(* Death callbacks                                                         *)

\* C11: when the death transition fires on a monster, the entity ends with
\* alive = FALSE, blocks = FALSE, no Fighter, no Ai, glyph '%' and the name
\* "remains of " followed by its former name; the xp returned, and quoted in
\* the log entry "{name} is dead! You gain {xp} XP" under the former name,
\* is the Fighter's xp right before it was cleared.
C11_MonsterDeath ==
    [][(Invoked /\ call'.op \in {"attack", "take_damage"} /\ call'.fired
            /\ SpawnedAs(call'.t, "Monster"))
        => LET before == objects[call'.t]
               after == objects'[call'.t]
               xp == Fighter(before).xp
           IN /\ ~after.alive /\ ~after.blocks
              /\ after.fighter = <<>> /\ after.ai = <<>>
              /\ after.chr = "%"
              /\ after.name = "remains of " \o before.name
              /\ call'.ret = <<xp>>
              /\ log'[Len(log')][1] = before.name \o " is dead! You gain "
                                          \o ToString(xp) \o " XP"
              /\ after.x = before.x /\ after.y = before.y]_vars

\* C11 witness: the orc has just been killed by an attack that returned its
\* 35 xp.
C11_Witness ==
    /\ call.op = "attack" /\ call.t = 1 /\ call.fired /\ call.ret = <<35>>
    /\ objects[1].name = "remains of orc" /\ objects[1].chr = "%"
    /\ Texts(log)[Len(log)] = "orc is dead! You gain 35 XP"

\* C12: when the death transition fires on the player, alive becomes FALSE,
\* the glyph '%' and the colour dark red, "You died!" is logged, and the
\* player's Fighter (stats and xp, with the hp the damage left), ai, name,
\* blocks and position stay as they are.
C12_PlayerDeath ==
    [][(Invoked /\ call'.op \in {"attack", "take_damage"} /\ call'.fired
            /\ SpawnedAs(call'.t, "Player"))
        => LET before == objects[call'.t]
               after == objects'[call'.t]
               hp_left == Fighter(before).hp
                              - (IF call'.damage > 0 THEN call'.damage ELSE 0)
           IN /\ after = [before EXCEPT
                             !.alive = FALSE, !.chr = "%",
                             !.color = "DARK_RED",
                             !.fighter = <<[Fighter(before) EXCEPT
                                               !.hp = hp_left]>>]
              /\ log'[Len(log')] = <<"You died!", "RED">>
              /\ Len(log') = Len(log)
                                 + (IF call'.op = "attack" THEN 2 ELSE 1)]_vars

\* C12 witness: the player (hp 2, xp 900) has just died of the troll's
\* attack (4 - 1 = 3) and still carries its Fighter with xp 900.
C12_Witness ==
    /\ call.op = "attack" /\ call.a = 2 /\ call.t = PLAYER /\ call.fired
    /\ ~objects[PLAYER].alive /\ objects[PLAYER].chr = "%"
    /\ objects[PLAYER].name = "player" /\ objects[PLAYER].blocks
    /\ Fighter(objects[PLAYER]).xp = 900
    /\ Fighter(objects[PLAYER]).hp = -1
    /\ Texts(log)[Len(log)] = "You died!"

-----------------------------------------------------------------------------
(* Missing components                                                      *)

MissingFighter(a, t) == ~HasFighter(objects[a]) \/ ~HasFighter(objects[t])

-----------------------------------------------------------------------------
(* Exit                                                                    *)

\* C15: when the player action of a tick is Exit, save_game is invoked
\* exactly once with the current entities and game state, the loop then
\* terminates (nothing follows the save, in particular no AI turn, and no
\* AI entity was invoked in that tick), and a failed save ends in a fatal
\* error instead of continuing; nothing but an Exit saves.
C15_ExitSavesOnceAndStops ==
    [][/\ saved = <<>>
       /\ (pc = "action" /\ player_action' = "Exit")
            => /\ Len(saved') = 1
               /\ saved'[1].objects = objects'
               /\ saved'[1].inventory = inventory'
               /\ saved'[1].log = log'
               /\ Invoked /\ call'.op = "save_game"
               /\ pc' = IF saved'[1].result = "Ok" THEN "done" ELSE "panic"
               /\ ai_trace' = <<>>
               /\ tick' = tick
       /\ (saved' # saved) => (pc = "action" /\ player_action' = "Exit")]_vars

\* C15 witness: the player left in the second tick, after the fight of the
\* first one changed the entities; the save of these entities failed and
\* the loop ended in the fatal error with no AI turn in that tick.
C15_Witness ==
    /\ player_action = "Exit"
    /\ tick = 1
    /\ Len(saved) = 1
    /\ saved[1].result = "Err"
    /\ saved[1].objects = objects
    /\ objects # spawn
    /\ pc = "panic"
    /\ ai_trace = <<>>

-----------------------------------------------------------------------------
(* Experience                                                              *)

\* C16: in every reachable state of the game, whatever attacks, death
\* transitions and level-ups led to it, every Fighter's xp is >= 0.
C16_XpNeverNegative ==
    \A i \in Ids(objects) :
        HasFighter(objects[i]) => Fighter(objects[i]).xp >= 0

\* C16 witness: the player spawned with 900 xp has levelled up twice, paying
\* 350 and then 500 xp, and is left with 50, less than any threshold.
C16_Witness ==
    /\ Fighter(spawn[PLAYER]).xp = 900
    /\ objects[PLAYER].level = 3
    /\ Fighter(objects[PLAYER]).xp = 50
    /\ pc = "action"

-----------------------------------------------------------------------------
(* The dead player                                                         *)

Progression(o) ==
    <<o.level, Fighter(o).hp, Fighter(o).base_max_hp, Fighter(o).base_power,
      Fighter(o).base_defense, Fighter(o).xp>>

\* C20: once the player is dead, no later tick changes the player's level,
\* hp, base_max_hp, base_power, base_defense or xp, and no AI entity is
\* invoked in a tick that starts with the player dead.  (The player dies
\* only in the AI phase, so a dead player in any earlier phase was dead
\* when the tick started.)
C20_DeadPlayerFrozen ==
    [][(~objects[PLAYER].alive /\ pc # "ai")
        => /\ Progression(objects'[PLAYER]) = Progression(objects[PLAYER])
           /\ pc' # "ai"]_vars

-----------------------------------------------------------------------------
(* Healing                                                                 *)

\* C17: after any call heal(amount) on an entity with a Fighter, hp is
\* min(old hp + amount, max_hp), hence at most max_hp, where max_hp is
\* base_max_hp plus the max-hp bonuses of the entity's equipped items; no
\* other field of the Fighter, and nothing else, changes.
C17_HealClamps ==
    [][(Invoked /\ call'.op = "heal" /\ HasFighter(objects[call'.t]))
        => LET before == objects[call'.t]
               after == objects'[call'.t]
               hp == Min(Fighter(before).hp + call'.damage, MaxHpOf(before))
           IN /\ Fighter(after).hp <= MaxHpOf(after)
              /\ Fighter(after).hp = hp
              /\ objects' = [objects EXCEPT ![call'.t].fighter[1].hp = hp]
              /\ log' = log /\ inventory' = inventory]_vars

\* C17 witness: the player wearing the amulet (max_hp 100 + 10) was, in the
\* second call, healed by 60 and stands at 110, the limit, not above it.
C17_Witness ==
    /\ call.op = "heal" /\ call.t = PLAYER /\ call.damage = 60
    /\ BonusSum(inventory, "max_hp_bonus") = 10
    /\ Fighter(spawn[PLAYER]).hp = 100
    /\ calls = 2
    /\ Fighter(objects[PLAYER]).hp = 110
    /\ Fighter(objects[PLAYER]).base_max_hp = 100

-----------------------------------------------------------------------------
(* Movement                                                                *)

\* The entities that carry a Fighter and stand on the cell.
FightersAt(cell) ==
    {i \in Ids(objects) : HasFighter(objects[i]) /\ pos(objects[i]) = cell}

\* C14: player_move_or_attack(dx, dy) has exactly three outcomes.  A
\* Fighter-bearing entity on the destination: the player stays and attack is
\* invoked with the player as attacker and that entity as target.  No such
\* entity and the cell unblocked: the player moves there.  No such entity
\* and the cell blocked: nothing changes and no error is raised.  The two
\* move cases modify no other entity and no hp or xp.
C14_MoveOrAttackOutcomes ==
    [][(Invoked /\ call'.op = "player_move_or_attack")
        => LET x == objects[PLAYER].x + call'.args[1]
               y == objects[PLAYER].y + call'.args[2]
           IN IF FightersAt(<<x, y>>) # {}
              THEN /\ pos(objects'[PLAYER]) = pos(objects[PLAYER])
                   /\ call'.a = PLAYER
                   /\ call'.t \in FightersAt(<<x, y>>)
              ELSE IF ~is_blocked(objects, x, y)
              THEN /\ objects' = [objects EXCEPT ![PLAYER].x = x,
                                                 ![PLAYER].y = y]
                   /\ log' = log /\ pc' = pc /\ call'.a = -1
              ELSE /\ objects' = objects
                   /\ log' = log /\ pc' = pc /\ call'.a = -1]_vars

\* C19: for every (dx, dy), (0, 0) included, player_move_or_attack never
\* selects the player itself as the target, so it never asks mut_two for two
\* views of one index, never ends in the fatal error and never runs an
\* attack of the player on the player.
C19_NeverTargetsPlayer ==
    [][(Invoked /\ call'.op = "player_move_or_attack")
        => /\ call'.t # PLAYER
           /\ pc' # "panic"]_vars

\* C18: move_towards with the entity's own position as the target moves
\* nothing and does not fault: every entity is as it was.
C18_MoveTowardsOwnPosition ==
    [][(Invoked /\ call'.op = "move_towards"
            /\ <<call'.args[2], call'.args[3]>> = pos(objects[call'.args[1]]))
        => /\ objects' = objects
           /\ log' = log
           /\ pc' = pc]_vars

\* C18 witness: the orc's remains, which block nothing, were told to move
\* towards the cell they lie on, after the player had stepped away.
C18_Witness ==
    /\ call.op = "move_towards"
    /\ call.args = <<1, 2, 0>>
    /\ pos(objects[1]) = <<2, 0>>
    /\ ~objects[1].blocks
    /\ pos(objects[PLAYER]) # pos(spawn[PLAYER])
    /\ pc = "call"

====
